---- MODULE Spec2Model ----
(***************************************************************************)
(* The video controller (getAllVideos, publishAVideo, getVideoById) as a   *)
(* state machine over the videos and users collections.  Every request is  *)
(* a handler that runs from one await to the next; the store executes the  *)
(* queries a handler has issued in between.                                *)
(*                                                                         *)
(* Store calls answer, except the two aggregations of getAllVideos, which  *)
(* may also be rejected (the handler's try/catch is about exactly those).  *)
(***************************************************************************)
EXTENDS Integers, Sequences, FiniteSets, TLC

\* ------------------------------------------------------------ bounds
MaxReq == 2
MaxPage == 2
MaxLimit == 2
MaxVideos == 2

\* ------------------------------------------------------------ values
\* An optional value (a query parameter that may be missing, a field that
\* may be unset): the empty tuple, or a one-element tuple.
None == <<>>
Some(x) == <<x>>

\* JavaScript numbers, strings and undefined where one slot may hold any
\* of them (the first argument of ApiError).
Num(n) == [t |-> "number", n |-> n]
Str(s) == [t |-> "string", s |-> s]
Undefined == [t |-> "undefined"]

\* Truthiness of an optional string (or character sequence): undefined and
\* the empty string are falsy.
TruthyStr(o) == o # None /\ o[1] # ""
TruthyChars(o) == o # None /\ o[1] # <<>>

\* Texts that are searched are sequences of one-character strings.
IsSpace(c) == c = " "

RECURSIVE TrimStart(_)
TrimStart(s) ==
    IF s # <<>> /\ IsSpace(Head(s)) THEN TrimStart(Tail(s)) ELSE s

RECURSIVE TrimEnd(_)
TrimEnd(s) ==
    IF s # <<>> /\ IsSpace(s[Len(s)]) THEN TrimEnd(SubSeq(s, 1, Len(s) - 1)) ELSE s

\* String.prototype.trim
Trim(s) == TrimEnd(TrimStart(s))

ToLower(c) ==
    CASE c = "A" -> "a"
      [] c = "B" -> "b"
      [] OTHER -> c

LowerSeq(s) == [i \in 1..Len(s) |-> ToLower(s[i])]

\* $regex with $options "i", for patterns of letters and spaces: the
\* pattern occurs somewhere in the text, case ignored.
RegexMatchI(pattern, text) ==
    \E i \in 1..(Len(text) - Len(pattern) + 1) :
        SubSeq(LowerSeq(text), i, i + Len(pattern) - 1) = LowerSeq(pattern)

CeilDiv(a, b) == (a + b - 1) \div b

\* ------------------------------------------------------------ store ids
\* ObjectIds are written as short names.  WellFormedIds are the strings
\* isValidObjectId accepts; "zz" and "" are strings it rejects.
VideoName == <<"v1", "v2", "v3", "v4">>
VideoIds == {VideoName[i] : i \in 1..MaxVideos}
UserIdsKnown == {"u1"}
WellFormedIds == {"u1", "u2"} \cup {VideoName[i] : i \in 1..(MaxVideos + 1)}
IsValidObjectId(s) == s \in WellFormedIds

\* ------------------------------------------------------------ errors
ApiError(statusCode, message) ==
    [kind |-> "error", name |-> "ApiError", statusCode |-> statusCode, message |-> message]

TypeError(message) ==
    [kind |-> "error", name |-> "TypeError", statusCode |-> Undefined, message |-> message]

NoOutcome == [kind |-> "none"]

\* ------------------------------------------------------------ getAllVideos: query parameters
DefaultPage == 1
DefaultLimit == 10

\* The destructuring of req.query with its defaults: a missing parameter
\* (undefined) takes the default, a present one (also the empty string) is
\* kept.  page and limit stand for the numeral strings; query stays
\* optional, userId too.
Destructure(raw) ==
    [kind |-> "list",
     page |-> IF raw.page = None THEN DefaultPage ELSE raw.page[1],
     limit |-> IF raw.limit = None THEN DefaultLimit ELSE raw.limit[1],
     query |-> raw.query,
     sortBy |-> IF raw.sortBy = None THEN "desc" ELSE raw.sortBy[1],
     sortType |-> IF raw.sortType = None THEN "date" ELSE raw.sortType[1],
     userId |-> raw.userId]

\* Validate without the check of the owner filter's format.
ValidateNoFormatCheck(q) ==
    IF q.sortBy # "" /\ q.sortBy \notin {"asc", "desc"}
    THEN ApiError(Num(400), "sortBy must be either 'asc' or 'desc' ")
    ELSE IF q.sortType # "" /\ q.sortType \notin {"date", "views"}
    THEN ApiError(Num(400), "sortType must be either 'date' or 'views'")
    ELSE NoOutcome

\* The checks that need no store call, in the order of the code; the first
\* that fails throws.
Validate(q) ==
    IF q.sortBy # "" /\ q.sortBy \notin {"asc", "desc"}
    THEN ApiError(Num(400), "sortBy must be either 'asc' or 'desc' ")
    ELSE IF q.sortType # "" /\ q.sortType \notin {"date", "views"}
    THEN ApiError(Num(400), "sortType must be either 'date' or 'views'")
    ELSE IF TruthyStr(q.userId) /\ ~IsValidObjectId(q.userId[1])
    THEN ApiError(Num(400), "Invalid user ID format")
    ELSE NoOutcome

\* ------------------------------------------------------------ getAllVideos: the stage lists
\* new mongoose.Types.isValidObjectId(userId): mongoose.Types holds the type
\* constructors (ObjectId, Decimal128, ...) and no isValidObjectId, so the
\* new-expression throws before anything is assigned to matchStage.owner.
NewTypesIsValidObjectId(userId) ==
    [threw |-> TRUE, value |-> None,
     error |-> TypeError("mongoose.Types.isValidObjectId is not a constructor")]

OwnerCondition(q) ==
    IF TruthyStr(q.userId)
    THEN NewTypesIsValidObjectId(q.userId[1])
    ELSE [threw |-> FALSE, value |-> None, error |-> NoOutcome]

TextCondition(q) ==
    IF TruthyChars(q.query) /\ Trim(q.query[1]) # <<>>
    THEN Some([fields |-> <<"title", "description">>,
               regex |-> Trim(q.query[1]), options |-> "i"])
    ELSE None

MatchStage(q) ==
    [op |-> "$match", owner |-> OwnerCondition(q).value, or |-> TextCondition(q)]

\* Object.keys(matchStage).length
MatchKeys(m) == (IF m.owner # None THEN 1 ELSE 0) + (IF m.or # None THEN 1 ELSE 0)

LookupStage ==
    [op |-> "$lookup", from |-> "users", localField |-> "owner",
     foreignField |-> "_id", as |-> "ownerDetails",
     project |-> {"username", "fullname", "avatar"}]

AddFieldsStage == [op |-> "$addFields", field |-> "owner", first |-> "ownerDetails"]

SortStage(q) ==
    [op |-> "$sort",
     field |-> IF q.sortType = "date" THEN "createdAt" ELSE "views",
     order |-> IF q.sortBy = "asc" THEN 1 ELSE -1]

ProjectStage ==
    [op |-> "$project",
     fields |-> {"title", "description", "videoFile", "thumbnail", "duration",
                 "views", "isPublished", "createdAt", "updatedAt", "owner"}]

CountStage == [op |-> "$count", as |-> "totalVideos"]
SkipStage(q) == [op |-> "$skip", n |-> (q.page - 1) * q.limit]
LimitStage(q) == [op |-> "$limit", n |-> q.limit]

\* pipeline, as it stands when countPipeline copies it
Pipeline(q) ==
    (IF MatchKeys(MatchStage(q)) > 0 THEN <<MatchStage(q)>> ELSE <<>>)
        \o <<LookupStage, AddFieldsStage, SortStage(q), ProjectStage>>

CountPipeline(q) == Append(Pipeline(q), CountStage)

DataPipeline(q) == Append(Append(Pipeline(q), SkipStage(q)), LimitStage(q))

\* ------------------------------------------------------------ the store's aggregation
\* Documents in flight are the videos' ids; $lookup, $addFields and $project
\* change a document's fields, not which documents pass or their order.
Perms(S) ==
    {f \in [1..Cardinality(S) -> S] : \A i, j \in 1..Cardinality(S) : i # j => f[i] # f[j]}

Range(s) == {s[i] : i \in 1..Len(s)}

MatchDoc(m, doc) ==
    /\ m.owner # None => doc.owner = m.owner
    /\ m.or # None =>
         \/ RegexMatchI(m.or[1].regex, doc.title)
         \/ RegexMatchI(m.or[1].regex, doc.description)

SortKey(stage, doc) == IF stage.field = "views" THEN doc.views ELSE doc.createdAt

\* The outputs a stage may produce from docs; $sort leaves the order of
\* equal keys to the store.
RunStage(stage, docs, store) ==
    CASE stage.op = "$match" ->
           LET Keep(id) == MatchDoc(stage, store[id]) IN {SelectSeq(docs, Keep)}
      [] stage.op = "$sort" ->
           {s \in Perms(Range(docs)) :
              \A i, j \in 1..Len(docs) :
                 i < j => stage.order * SortKey(stage, store[s[i]])
                             <= stage.order * SortKey(stage, store[s[j]])}
      [] stage.op = "$skip" -> {SubSeq(docs, stage.n + 1, Len(docs))}
      [] stage.op = "$limit" ->
           {SubSeq(docs, 1, IF stage.n < Len(docs) THEN stage.n ELSE Len(docs))}
      [] stage.op = "$count" ->
           {IF Len(docs) = 0 THEN <<>> ELSE <<[totalVideos |-> Len(docs)]>>}
      [] OTHER -> {docs}

RECURSIVE RunFrom(_, _, _, _)
RunFrom(stages, i, docs, store) ==
    IF i > Len(stages) THEN {docs}
    ELSE UNION {RunFrom(stages, i + 1, d, store) : d \in RunStage(stages[i], docs, store)}

\* Video.aggregate(stages): the results the store may return.
Aggregate(stages, store) ==
    UNION {RunFrom(stages, 1, d, store) : d \in Perms(DOMAIN store)}

\* ------------------------------------------------------------ state
VARIABLES
    videos,     \* the videos collection: _id -> document
    users,      \* the _ids of the users collection
    req,        \* per request: the handler's parameters and locals
    pc,         \* per request: the await the handler is suspended at
    dataQ,      \* per request: Video.aggregate(pipeline), as issued and answered
    countQ,     \* per request: Video.aggregate(countPipeline)
    outcome     \* per request: the response sent, or the error thrown

vars == <<videos, users, req, pc, dataQ, countQ, outcome>>

Requests == 1..MaxReq

\* An aggregation: the stage list sent, how often it was sent, and the answer.
NoQuery == [st |-> "none", sent |-> 0, stages |-> <<>>, result |-> <<>>]
Issued(stages) == [st |-> "pending", sent |-> 1, stages |-> stages, result |-> <<>>]

\* Documents the collection may hold before the first request: title and
\* description are character sequences, owner is unset or a user's _id.
SeedDoc == [owner |-> Some("u1"), views |-> 0, title |-> <<"A">>, description |-> <<"b">>]

SeedDocs ==
    {SeedDoc, [owner |-> None, views |-> 1, title |-> <<"b">>, description |-> <<"b">>]}

\* The collections of up to MaxVideos documents drawn from docs, with _ids
\* and creation times in the order of insertion.
InitStores(docs) ==
    UNION {{[id \in {VideoName[i] : i \in 1..n} |->
                LET k == CHOOSE i \in 1..n : VideoName[i] = id
                IN [owner |-> pick[k].owner, views |-> pick[k].views,
                    title |-> pick[k].title, description |-> pick[k].description,
                    createdAt |-> k]] :
            pick \in [1..n -> docs]} : n \in 0..MaxVideos}

InitWith(docs) ==
    /\ videos \in InitStores(docs)
    /\ users = UserIdsKnown
    /\ req = [r \in Requests |-> [kind |-> "idle"]]
    /\ pc = [r \in Requests |-> "idle"]
    /\ dataQ = [r \in Requests |-> NoQuery]
    /\ countQ = [r \in Requests |-> NoQuery]
    /\ outcome = [r \in Requests |-> NoOutcome]

Init == InitWith({SeedDoc})

InitListing == InitWith(SeedDocs)

\* The handler of request r ends with outcome o.
Finish(r, o) ==
    /\ pc' = [pc EXCEPT ![r] = "done"]
    /\ outcome' = [outcome EXCEPT ![r] = o]

\* ------------------------------------------------------------ getAllVideos
\* What req.query may hold.
ListQueries ==
    [page : {None} \cup {Some(p) : p \in 1..MaxPage},
     limit : {None} \cup {Some(l) : l \in 1..MaxLimit},
     query : {None, Some(<<" ">>), Some(<<" ", "a", " ">>)},
     sortBy : {None, Some("asc"), Some("desc"), Some(""), Some("up")},
     sortType : {None, Some("date"), Some("views"), Some(""), Some("likes")},
     userId : {None, Some(""), Some("zz"), Some("u1"), Some("u2")}]

\* The listings that run beside the other handlers: page and owner filter
\* vary, search and sort keep their defaults.
PlainListQueries ==
    [page : {None, Some(2)},
     limit : {Some(1)},
     query : {None},
     sortBy : {None},
     sortType : {None},
     userId : {None, Some("u1")}]

\* From "Build aggregation pipeline stages" to the Promise.all: the stage
\* lists are built and both aggregations are issued, unless building throws.
BuildAndIssue(r, q) ==
    IF OwnerCondition(q).threw
    THEN /\ Finish(r, OwnerCondition(q).error)
         /\ UNCHANGED <<dataQ, countQ>>
    ELSE /\ pc' = [pc EXCEPT ![r] = "awaitAgg"]
         /\ dataQ' = [dataQ EXCEPT ![r] = Issued(DataPipeline(q))]
         /\ countQ' = [countQ EXCEPT ![r] = Issued(CountPipeline(q))]
         /\ UNCHANGED outcome

\* The handler from its start to its first await.
GetAllVideosBegin(r, queries) ==
    /\ pc[r] = "idle"
    /\ \E raw \in queries :
         LET q == Destructure(raw) IN
         /\ req' = [req EXCEPT ![r] = q]
         /\ IF Validate(q).kind = "error"
            THEN Finish(r, Validate(q)) /\ UNCHANGED <<dataQ, countQ>>
            ELSE IF TruthyStr(q.userId)
            THEN /\ pc' = [pc EXCEPT ![r] = "awaitUser"]
                 /\ UNCHANGED <<dataQ, countQ, outcome>>
            ELSE BuildAndIssue(r, q)
    /\ UNCHANGED <<videos, users>>

\* User.findById(userId) answers and the handler goes on to the Promise.all.
GetAllVideosUserFound(r) ==
    /\ pc[r] = "awaitUser"
    /\ IF req[r].userId[1] \notin users
       THEN Finish(r, ApiError(Num(400), "User does not exist"))
            /\ UNCHANGED <<dataQ, countQ>>
       ELSE BuildAndIssue(r, req[r])
    /\ UNCHANGED <<videos, users, req>>

\* The store answers one of the two aggregations, or rejects it.
DataQueryRun(r) ==
    /\ dataQ[r].st = "pending"
    /\ \E docs \in Aggregate(dataQ[r].stages, videos) :
         dataQ' = [dataQ EXCEPT ![r] = [@ EXCEPT !.st = "ok", !.result = docs]]
    /\ UNCHANGED <<videos, users, req, pc, countQ, outcome>>

DataQueryFail(r) ==
    /\ dataQ[r].st = "pending"
    /\ dataQ' = [dataQ EXCEPT ![r] = [@ EXCEPT !.st = "failed"]]
    /\ UNCHANGED <<videos, users, req, pc, countQ, outcome>>

CountQueryRun(r) ==
    /\ countQ[r].st = "pending"
    /\ \E docs \in Aggregate(countQ[r].stages, videos) :
         countQ' = [countQ EXCEPT ![r] = [@ EXCEPT !.st = "ok", !.result = docs]]
    /\ UNCHANGED <<videos, users, req, pc, dataQ, outcome>>

CountQueryFail(r) ==
    /\ countQ[r].st = "pending"
    /\ countQ' = [countQ EXCEPT ![r] = [@ EXCEPT !.st = "failed"]]
    /\ UNCHANGED <<videos, users, req, pc, dataQ, outcome>>

\* countResult[0]?.totalVideos || 0
TotalVideos(countResult) ==
    IF Len(countResult) = 0 THEN 0 ELSE countResult[1].totalVideos

\* The response composed from the two results.
ListResponse(q, vids, countResult) ==
    IF Len(vids) = 0
    THEN [kind |-> "success", status |-> 200, videos |-> <<>>,
          pagination |-> [currentPage |-> q.page, totalPages |-> 0, totalVideos |-> 0,
                          hasPrevPage |-> FALSE, hasNextPage |-> FALSE],
          message |-> "Videos doesn't exist"]
    ELSE [kind |-> "success", status |-> 200, videos |-> vids,
          pagination |-> [currentPage |-> q.page,
                          totalVideos |-> TotalVideos(countResult),
                          totalPages |-> CeilDiv(TotalVideos(countResult), q.limit),
                          hasPrevPage |-> q.page > 1,
                          hasNextPage |-> q.page < CeilDiv(TotalVideos(countResult), q.limit)],
          message |-> "Videos fetched successfully"]

\* GetAllVideosRespond, counting a view for every video it returns.
GetAllVideosRespondCounting(r) ==
    /\ pc[r] = "awaitAgg"
    /\ dataQ[r].st = "ok" /\ countQ[r].st = "ok"
    /\ Finish(r, ListResponse(req[r], dataQ[r].result, countQ[r].result))
    /\ videos' = [v \in DOMAIN videos |->
                    IF v \in Range(dataQ[r].result)
                    THEN [videos[v] EXCEPT !.views = @ + 1]
                    ELSE videos[v]]
    /\ UNCHANGED <<users, req, dataQ, countQ>>

\* Promise.all fulfils once both aggregations have answered.
GetAllVideosRespond(r) ==
    /\ pc[r] = "awaitAgg"
    /\ dataQ[r].st = "ok" /\ countQ[r].st = "ok"
    /\ Finish(r, ListResponse(req[r], dataQ[r].result, countQ[r].result))
    /\ UNCHANGED <<videos, users, req, dataQ, countQ>>

\* The error the catch block throws: ApiError called with the message alone.
FetchError ==
    ApiError(Str("Something went wrong while fetching the videos"), "Something went wrong")

\* Promise.all rejects as soon as one aggregation is rejected.
GetAllVideosCatch(r) ==
    /\ pc[r] = "awaitAgg"
    /\ dataQ[r].st = "failed" \/ countQ[r].st = "failed"
    /\ Finish(r, FetchError)
    /\ UNCHANGED <<videos, users, req, dataQ, countQ>>

\* ------------------------------------------------------------ getVideoById
\* What req.params.videoId may hold: a string that is no ObjectId, or the
\* string of an ObjectId (of a video, or of none).
VideoIdParams == {"zz"} \cup {VideoName[i] : i \in 1..(MaxVideos + 1)}

GetVideoByIdBegin(r) ==
    /\ pc[r] = "idle"
    /\ \E videoId \in VideoIdParams :
         /\ req' = [req EXCEPT ![r] = [kind |-> "view", videoId |-> videoId]]
         /\ IF ~IsValidObjectId(videoId)
            THEN Finish(r, ApiError(Num(400), "Invalid Video Id"))
            ELSE /\ pc' = [pc EXCEPT ![r] = "awaitFind"]
                 /\ UNCHANGED outcome
    /\ UNCHANGED <<videos, users, dataQ, countQ>>

\* Video.findById(videoId).populate(...) answers.
GetVideoByIdFound(r) ==
    /\ pc[r] = "awaitFind"
    /\ IF req[r].videoId \notin DOMAIN videos
       THEN Finish(r, ApiError(Num(400), "Video doesn't exist"))
       ELSE /\ pc' = [pc EXCEPT ![r] = "awaitUpdate"]
            /\ UNCHANGED outcome
    /\ UNCHANGED <<videos, users, req, dataQ, countQ>>

\* IncViews with $set in place of $inc.
SetViews(store, videoId) ==
    IF videoId \in DOMAIN store
    THEN [store EXCEPT ![videoId].views = 1]
    ELSE store

\* findByIdAndUpdate(videoId, {$inc: {views: 1}}): one atomic update of the
\* document, if it is there.
IncViews(store, videoId) ==
    IF videoId \in DOMAIN store
    THEN [store EXCEPT ![videoId].views = @ + 1]
    ELSE store

\* The update is applied and the handler answers.
GetVideoByIdUpdate(r) ==
    /\ pc[r] = "awaitUpdate"
    /\ videos' = IncViews(videos, req[r].videoId)
    /\ Finish(r, [kind |-> "success", status |-> 200, data |-> "Video Fetched Successfully"])
    /\ UNCHANGED <<users, req, dataQ, countQ>>

\* ------------------------------------------------------------ publishAVideo
LongText == <<"a", "b", "a", "b", "a", "b", "a", "b", "a", "b", "a">>

PublishBodies ==
    [title : {None, Some(<<" ", "A">>)},
     description : {None, Some(<<"a">>), Some(LongText)},
     hasThumbnail : BOOLEAN,
     hasVideoFile : BOOLEAN]

PublishValidate(b) ==
    IF ~TruthyChars(b.title) THEN ApiError(Num(400), "Title is required")
    ELSE IF ~TruthyChars(b.description) THEN ApiError(Num(400), "Description is required")
    ELSE IF ~b.hasThumbnail THEN ApiError(Num(401), "Thumbnail file is required")
    ELSE IF ~b.hasVideoFile THEN ApiError(Num(401), "Media file is required")
    ELSE NoOutcome

\* Handlers that may still create a video.
Publishing == {r \in Requests : req[r].kind = "publish" /\ pc[r] # "done"}

PublishAVideoBegin(r) ==
    /\ pc[r] = "idle"
    /\ Cardinality(DOMAIN videos) + Cardinality(Publishing) < MaxVideos
    /\ \E b \in PublishBodies :
         /\ req' = [req EXCEPT ![r] =
                      [kind |-> "publish", title |-> b.title, description |-> b.description,
                       thumbnail |-> None, videoFile |-> None, videoId |-> None]]
         /\ IF PublishValidate(b).kind = "error"
            THEN Finish(r, PublishValidate(b))
            ELSE /\ pc' = [pc EXCEPT ![r] = "awaitThumbnail"]
                 /\ UNCHANGED outcome
    /\ UNCHANGED <<videos, users, dataQ, countQ>>

\* uploadCloudinary(thumbnailLocalPath) answers: the upload's response, or null.
PublishThumbnailUploaded(r) ==
    /\ pc[r] = "awaitThumbnail"
    /\ \E up \in {None, Some("thumbnail.url")} :
         req' = [req EXCEPT ![r].thumbnail = up]
    /\ pc' = [pc EXCEPT ![r] = "awaitVideoFile"]
    /\ UNCHANGED <<videos, users, dataQ, countQ, outcome>>

\* uploadCloudinary(videoFileLocalPath) answers; both uploads are then checked.
PublishVideoFileUploaded(r) ==
    /\ pc[r] = "awaitVideoFile"
    /\ \E up \in {None, Some("videoFile.url")} :
         /\ req' = [req EXCEPT ![r].videoFile = up]
         /\ IF req[r].thumbnail = None
            THEN Finish(r, ApiError(Num(400), "Thumbnail file is mandatory"))
            ELSE IF up = None
            THEN Finish(r, ApiError(Num(400), "Media file is mandatory"))
            ELSE /\ pc' = [pc EXCEPT ![r] = "awaitCreate"]
                 /\ UNCHANGED outcome
    /\ UNCHANGED <<videos, users, dataQ, countQ>>

\* The views a document gets when Video.create names none.
DefaultViews == 0

\* The document Video.create is given: no owner, and for description the
\* comparison's boolean, which a String path stores as "true" or "false".
NewVideoDoc(title, description, now) ==
    [owner |-> None, views |-> DefaultViews, title |-> Trim(title),
     description |-> IF Len(Trim(description)) > 10
                     THEN <<"t", "r", "u", "e">>
                     ELSE <<"f", "a", "l", "s", "e">>,
     createdAt |-> now]

\* The collection with doc inserted under a fresh _id.
Insert(store, id, doc) ==
    [x \in DOMAIN store \cup {id} |-> IF x = id THEN doc ELSE store[x]]

PublishCreate(r) ==
    /\ pc[r] = "awaitCreate"
    /\ LET n == Cardinality(DOMAIN videos) + 1 IN
         /\ videos' = Insert(videos, VideoName[n],
                             NewVideoDoc(req[r].title[1], req[r].description[1], n))
         /\ req' = [req EXCEPT ![r].videoId = Some(VideoName[n])]
    /\ pc' = [pc EXCEPT ![r] = "awaitFetch"]
    /\ UNCHANGED <<users, dataQ, countQ, outcome>>

\* Video.findById(video._id).populate(...) answers and the handler responds.
PublishFetched(r) ==
    /\ pc[r] = "awaitFetch"
    /\ IF req[r].videoId[1] \notin DOMAIN videos
       THEN Finish(r, ApiError(Num(500), "Something went wrong while uploading the video"))
       ELSE Finish(r, [kind |-> "success", status |-> 201, data |-> req[r].videoId[1]])
    /\ UNCHANGED <<videos, users, req, dataQ, countQ>>

\* ------------------------------------------------------------ specifications
\* The store's part in a listing.
QuerySteps(r) ==
    \/ DataQueryRun(r)
    \/ DataQueryFail(r)
    \/ CountQueryRun(r)
    \/ CountQueryFail(r)

\* All three handlers, interleaved at their awaits.
Next ==
    \E r \in Requests :
        \/ GetAllVideosBegin(r, PlainListQueries)
        \/ GetAllVideosUserFound(r)
        \/ QuerySteps(r)
        \/ GetAllVideosRespond(r)
        \/ GetAllVideosCatch(r)
        \/ GetVideoByIdBegin(r)
        \/ GetVideoByIdFound(r)
        \/ GetVideoByIdUpdate(r)
        \/ PublishAVideoBegin(r)
        \/ PublishThumbnailUploaded(r)
        \/ PublishVideoFileUploaded(r)
        \/ PublishCreate(r)
        \/ PublishFetched(r)

Spec == Init /\ [][Next]_vars

\* One listing request with any query parameters, against any initial store.
NextListing ==
    \/ GetAllVideosBegin(1, ListQueries)
    \/ GetAllVideosUserFound(1)
    \/ QuerySteps(1)
    \/ GetAllVideosRespond(1)
    \/ GetAllVideosCatch(1)

SpecListing == InitListing /\ [][NextListing]_vars

\* ------------------------------------------------------------ properties
Lists == {r \in Requests : req[r].kind = "list"}
Views == {r \in Requests : req[r].kind = "view"}

IsApiError(o, status) ==
    o.kind = "error" /\ o.name = "ApiError" /\ o.statusCode = Num(status)

\* The listing has got past every check of its parameters.
PassedValidation(r) ==
    /\ r \in Lists
    /\ pc[r] \in {"awaitAgg", "done"}
    /\ ~IsApiError(outcome[r], 400)

SortAccepted(q) == q.sortBy \in {"asc", "desc"} /\ q.sortType \in {"date", "views"}

PrefixOps ==
    {<<"$lookup", "$addFields", "$sort", "$project">>,
     <<"$match", "$lookup", "$addFields", "$sort", "$project">>}

\* d and c are one stage prefix followed by skip and limit, and by the
\* counting stage.
SamePrefix(q, d, c) ==
    LET n == Len(d) IN
    /\ n >= 2 /\ Len(c) = n - 1
    /\ SubSeq(d, 1, n - 2) = SubSeq(c, 1, n - 2)
    /\ [i \in 1..(n - 2) |-> d[i].op] \in PrefixOps
    /\ d[n - 1] = [op |-> "$skip", n |-> (q.page - 1) * q.limit]
    /\ d[n] = [op |-> "$limit", n |-> q.limit]
    /\ c[n - 1] = [op |-> "$count", as |-> "totalVideos"]

\* C1: for every listing that passes validation, the data query and the
\* count query are one stage prefix (optional filter, owner lookup, collapse,
\* sort, projection) followed by skip (page-1)*limit and limit limit, and by
\* one counting stage, and differ in nothing else.
C1_SamePrefix ==
    \A r \in Requests :
        PassedValidation(r) => SamePrefix(req[r], dataQ[r].stages, countQ[r].stages)

\* C2: in every successful listing response totalPages is
\* ceil(totalVideos / limit) (0 for no videos), hasPrevPage is page > 1 and
\* hasNextPage is page < totalPages, also when no video is returned.
C2_Pagination ==
    \A r \in Lists :
        outcome[r].kind = "success" =>
            LET p == outcome[r].pagination
                q == req[r]
            IN /\ p.totalPages * q.limit >= p.totalVideos
               /\ (p.totalPages - 1) * q.limit < p.totalVideos
               /\ p.totalVideos = 0 => p.totalPages = 0
               /\ p.hasPrevPage = (q.page > 1)
               /\ p.hasNextPage = (q.page < p.totalPages)

\* C3: the four pairs of {asc, desc} x {date, views} sort by createdAt for
\* date and views for views, ascending for asc and descending for desc; any
\* other sortBy or sortType ends the request with status 400 before a user
\* lookup or an aggregation is issued.
C3_SortTotal ==
    \A r \in Lists :
        IF SortAccepted(req[r])
        THEN dataQ[r].st # "none" =>
               \E i \in 1..Len(dataQ[r].stages) :
                  dataQ[r].stages[i] =
                     [op |-> "$sort",
                      field |-> IF req[r].sortType = "date" THEN "createdAt" ELSE "views",
                      order |-> IF req[r].sortBy = "asc" THEN 1 ELSE -1]
        ELSE /\ pc[r] = "done"
             /\ IsApiError(outcome[r], 400)
             /\ dataQ[r].st = "none" /\ countQ[r].st = "none"

\* An owner filter is given: userId is a non-empty string.
OwnerGiven(q) == q.userId # None /\ q.userId[1] # ""

\* The checks before the owner filter let the request through.
SortLetThrough(q) == q.sortBy \in {"", "asc", "desc"} /\ q.sortType \in {"", "date", "views"}

C5_OwnerListing ==
    \A r \in Lists :
        LET q == req[r] IN
        (OwnerGiven(q) /\ q.userId[1] \in users /\ SortAccepted(q) /\ pc[r] = "done"
            /\ dataQ[r].st # "failed" /\ countQ[r].st # "failed") =>
            /\ outcome[r].kind = "success"
            /\ \A i \in 1..Len(outcome[r].videos) :
                  videos[outcome[r].videos[i]].owner = q.userId
            /\ (\A v \in DOMAIN videos : videos[v].owner # q.userId) =>
                  /\ outcome[r].videos = <<>>
                  /\ outcome[r].pagination.totalVideos = 0
                  /\ outcome[r].pagination.totalPages = 0
                  /\ ~outcome[r].pagination.hasNextPage
                  /\ ~outcome[r].pagination.hasPrevPage

\* The free-text query, trimmed, is not empty.
TextGiven(q) == q.query # None /\ Trim(q.query[1]) # <<>>

\* C6: the filter stage is there exactly if an owner filter is given or the
\* trimmed query is not empty; it holds the owner if given and the
\* case-insensitive match of the trimmed query on title or description if
\* given; without a condition the pipeline starts with the owner lookup.
C6_FilterStage ==
    \A r \in Requests :
        PassedValidation(r) =>
            LET q == req[r]
                d == dataQ[r].stages
            IN /\ Len(d) > 0
               /\ IF OwnerGiven(q) \/ TextGiven(q)
                  THEN /\ d[1].op = "$match"
                       /\ d[1].owner = (IF OwnerGiven(q) THEN q.userId ELSE None)
                       /\ d[1].or =
                            IF TextGiven(q)
                            THEN Some([fields |-> <<"title", "description">>,
                                       regex |-> Trim(q.query[1]), options |-> "i"])
                            ELSE None
                  ELSE d[1].op = "$lookup"

\* C7: both aggregations are issued together and once; a success response
\* is composed only from two answers; when either is rejected the request
\* ends with an error of a 5xx status.
C7_AllOrNothing ==
    \A r \in Lists :
        /\ dataQ[r].sent = countQ[r].sent /\ dataQ[r].sent <= 1
        /\ outcome[r].kind = "success" => dataQ[r].st = "ok" /\ countQ[r].st = "ok"
        /\ (pc[r] = "done" /\ (dataQ[r].st = "failed" \/ countQ[r].st = "failed")) =>
              /\ outcome[r].kind = "error"
              /\ outcome[r].statusCode.t = "number"
              /\ outcome[r].statusCode.n \in 500..599

\* Request r takes a step.
Steps(r) ==
    \/ pc'[r] # pc[r]
    \/ dataQ'[r] # dataQ[r]
    \/ countQ'[r] # countQ[r]
    \/ outcome'[r] # outcome[r]

\* C8: no step of a listing changes the videos collection; a step that
\* changes it is a step of getVideoById or of publishAVideo.
C8_PureRead ==
    [][/\ \A r \in Requests : (req'[r].kind = "list" /\ Steps(r)) => videos' = videos
       /\ videos' # videos =>
            \E r \in Requests : req[r].kind \in {"view", "publish"} /\ pc'[r] # pc[r]]_vars

C8_Witness ==
    \E r, s \in Requests :
        /\ req[r].kind = "list" /\ outcome[r].kind = "success" /\ outcome[r].videos # <<>>
        /\ req[s].kind = "view" /\ outcome[s].kind = "success"

\* The fetches of video v that have found it and answered.
Fetched(v) ==
    {r \in Views : req[r].videoId = v /\ outcome[r].kind = "success"}

\* C9: a video's view count never decreases; it is the count it started
\* with plus one for every getVideoById that found the video, whatever else
\* ran in between; a rejected getVideoById changes no count.
C9_ViewCounts ==
    /\ [](\A v \in DOMAIN videos : videos[v].views = Cardinality(Fetched(v)))
    /\ [][\A v \in DOMAIN videos : videos'[v].views >= videos[v].views]_vars

C9_Witness ==
    \E v \in DOMAIN videos :
        /\ videos[v].views = 2
        /\ Cardinality(Fetched(v)) = 2

\* C10: the totalVideos of a successful listing response is the number the
\* count query returned, also when the page lies past the last one.
C10_TotalVideos ==
    \A r \in Lists :
        outcome[r].kind = "success" =>
            outcome[r].pagination.totalVideos = TotalVideos(countQ[r].result)

====
